---- MODULE Spec2Model ----
(***************************************************************************)
(* A model of the solenoid driver: its input decoder (InputArray,           *)
(* InputData), its actuators, the refresh of the inputs over the bus and   *)
(* the PWM controller's channel handles.  The repository holds several     *)
(* revisions of the code, and the variable `revision` says which one runs: *)
(*   "root"      src/src/lib.rs: the registry is a fixed array with an     *)
(*               explicit count;                                           *)
(*   "solenoids" src/solenoids/src/lib.rs and controller.rs: the registry  *)
(*               is a heapless Vec behind a Cell;                          *)
(*   "actuators" src/solenoids/src/actuators.rs and pwm.rs, with the       *)
(*               control loop of src/board/src/periphs.rs: an actuator is  *)
(*               a function from the previous State to the next one;       *)
(*   "board"     src/board/src/pwm.rs: the PWM controller that hands out   *)
(*               all its channels at once.                                 *)
(* A read of a line gives the set of results the builds of the library can *)
(* produce (with and without overflow checks).                             *)
(***************************************************************************)
EXTENDS Integers, Sequences, FiniteSets, TLC

VARIABLES revision, raw, written, layout, layout_arr, input_count,
          views, call, result,
          max_duty, actuators, tick, panicked, basic_in, basic_out,
          exposed, pc, load_pin, buf, transfer, refreshed, good, prev_raw,
          channels, handles

\* The registry, its snapshot and what the caller holds of them.
registry_vars == <<layout, layout_arr, input_count, views, call, result>>
\* The actuators of the root and solenoids revisions, and their pins.
actuator_vars == <<actuators, tick>>
\* The last call of Basic::update_state of the actuators revision.
basic_vars == <<basic_in, basic_out>>
\* The input refresh: where it stands, the load strobe, the SPI buffer, how
\* the last transfer ended, whether a refresh has completed, the snapshot of
\* the last refresh whose transfer succeeded, and the snapshot the refresh in
\* hand started from.
refresh_vars == <<pc, load_pin, buf, transfer, refreshed, good, prev_raw>>
\* The PWM timers' channels and the live handles on them.
pwm_vars == <<channels, handles>>

vars == <<revision, raw, written, layout, layout_arr, input_count,
          views, call, result,
          max_duty, actuators, tick, panicked, basic_in, basic_out,
          exposed, pc, load_pin, buf, transfer, refreshed, good, prev_raw,
          channels, handles>>

(***************************************************************************)
(* Program constants.                                                      *)
(***************************************************************************)
\* raw: Cell<u16>: the snapshot is 16 bits wide.
U16_BITS == 16
\* type InputLayout = Vec<(u8, u8), U6>: the Vec holds at most 6 extents.
VEC_CAPACITY == 6
\* type InputLayout = [(u8, u8); 16] in the root revision.
ARRAY_LEN == 16
\* if curr_input_count == 15 { return Err(..) } in the root revision.
COUNT_LIMIT == 15
\* if size_used >= 16 { return Err(..) } in both revisions.
SIZE_LIMIT == 16

(***************************************************************************)
(* The values update() is called with: under Spec, and under SpecActuator  *)
(* (where the one view starts at bit 0, and the four values are the four   *)
(* settings of its lines 1 and 2).                                         *)
(***************************************************************************)
RawSamples == {0, 1, 32768}
LineSamples == {0, 1, 2, 3}

InputType == {"Single", "Double", "Triple"}

\* match input { Single => 1, Double => 2, Triple => 3 }
InputWidth(input) ==
    CASE input = "Single" -> 1
      [] input = "Double" -> 2
      [] input = "Triple" -> 3

RECURSIVE Pow2(_)
Pow2(n) == IF n = 0 THEN 1 ELSE 2 * Pow2(n - 1)

(***************************************************************************)
(* What a read of one line gives: Some(bool), None, or a panic.            *)
(***************************************************************************)
None == [tag |-> "None"]
Some(b) == [tag |-> "Some", val |-> b]
Panic == [tag |-> "Panic"]

\* location.get() & (1 << shift) != 0 on u16 operands.  `1 << shift` with
\* shift >= 16 overflows: a panic in a build that checks overflow, and a shift
\* by (shift mod 16) in a build that does not.
MaskedBitIsSet(word, shift) ==
    IF shift >= U16_BITS
    THEN {Panic, Some((word \div Pow2(shift % U16_BITS)) % 2 = 1)}
    ELSE {Some((word \div Pow2(shift)) % 2 = 1)}

input1_is_high(d) ==
    CASE d._type \in {"Single", "Double", "Triple"} ->
            MaskedBitIsSet(raw, 0 + d.start_offset)

input2_is_high(d) ==
    CASE d._type = "Single" -> {None}
      [] d._type \in {"Double", "Triple"} ->
            MaskedBitIsSet(raw, 1 + d.start_offset)

input3_is_high(d) ==
    CASE d._type \in {"Single", "Double"} -> {None}
      [] d._type = "Triple" -> MaskedBitIsSet(raw, 2 + d.start_offset)

\* Line 1, 2 or 3 of a view.
input_is_high(d, line) ==
    CASE line = 1 -> input1_is_high(d)
      [] line = 2 -> input2_is_high(d)
      [] line = 3 -> input3_is_high(d)

(***************************************************************************)
(* The registry.                                                           *)
(***************************************************************************)
RECURSIVE SumSeq(_, _)
SumSeq(s, field) ==
    IF s = <<>> THEN 0 ELSE Head(s)[field] + SumSeq(Tail(s), field)

\* The same sum with the tuple fields mixed up: it adds the offsets.
SizeUsedOfOffsets(l) == SumSeq(l, 1)

\* layout.iter().map(|t| t.1).sum(): the widths registered so far.
SizeUsed(l) == SumSeq(l, 2)

\* self.layout[0..curr_input_count] of the root revision, as a sequence.
ArrPrefix(arr, n) == [i \in 1..n |-> arr[i - 1]]

Ok(d) == [tag |-> "Ok", data |-> d]
Err == [tag |-> "Err", err |-> "TooManyInputs"]
NoResult == [tag |-> "NoCall"]

InputData(offset, input) == [start_offset |-> offset, _type |-> input]

\* What the caller keeps of a call: its argument, and the registry it met.
Call(input, size, count) == [input |-> input, size_used |-> size, count |-> count]

\* get_input with the error path that forgets to put the layout back
\* (layout.take() leaves an empty Vec in the Cell).
get_input_no_restore(input) ==
    LET size_used == SizeUsed(layout)
    IN  /\ revision = "solenoids"
        /\ call' = Call(input, size_used, Len(layout))
        /\ IF size_used >= SIZE_LIMIT
           THEN /\ layout' = <<>>
                /\ result' = Err
                /\ views' = views
           ELSE IF Len(layout) >= VEC_CAPACITY
                THEN /\ layout' = layout
                     /\ result' = Err
                     /\ views' = views
                ELSE /\ layout' = Append(layout, <<size_used, InputWidth(input)>>)
                     /\ result' = Ok(InputData(size_used, input))
                     /\ views' = Append(views, InputData(size_used, input))
        /\ UNCHANGED <<revision, raw, written, layout_arr, input_count>>
        /\ UNCHANGED <<max_duty, actuators, tick, panicked, basic_in, basic_out,
                   exposed, refresh_vars, pwm_vars>>

\* InputArray::get_input of the solenoids revision.
get_input(input) ==
    LET size_used == SizeUsed(layout)
    IN  /\ revision = "solenoids"
        /\ call' = Call(input, size_used, Len(layout))
        /\ IF size_used >= SIZE_LIMIT
           THEN /\ layout' = layout
                /\ result' = Err
                /\ views' = views
           ELSE IF Len(layout) >= VEC_CAPACITY
                THEN \* push() hands the element back and changes nothing
                     /\ layout' = layout
                     /\ result' = Err
                     /\ views' = views
                ELSE /\ layout' = Append(layout, <<size_used, InputWidth(input)>>)
                     /\ result' = Ok(InputData(size_used, input))
                     /\ views' = Append(views, InputData(size_used, input))
        /\ UNCHANGED <<revision, raw, written, layout_arr, input_count>>
        /\ UNCHANGED <<max_duty, actuators, tick, panicked, basic_in, basic_out,
                   exposed, refresh_vars, pwm_vars>>

\* InputArray::get_input of the root revision.
root_get_input(input) ==
    LET curr_input_count == input_count
        size_used == SizeUsed(ArrPrefix(layout_arr, curr_input_count))
    IN  /\ revision = "root"
        /\ call' = Call(input, size_used, curr_input_count)
        /\ IF curr_input_count = COUNT_LIMIT
           THEN /\ result' = Err
                /\ UNCHANGED <<layout_arr, input_count, views>>
           ELSE IF size_used >= SIZE_LIMIT
                THEN /\ result' = Err
                     /\ UNCHANGED <<layout_arr, input_count, views>>
                ELSE /\ layout_arr' = [layout_arr EXCEPT
                            ![curr_input_count] = <<size_used, InputWidth(input)>>]
                     /\ input_count' = curr_input_count + 1
                     /\ result' = Ok(InputData(size_used, input))
                     /\ views' = Append(views, InputData(size_used, input))
        /\ UNCHANGED <<revision, raw, written, layout>>
        /\ UNCHANGED <<max_duty, actuators, tick, panicked, basic_in, basic_out,
                   exposed, refresh_vars, pwm_vars>>

\* InputArray::update: self.raw.replace(data).  A panic has halted the program
\* (panic_halt), so nothing is called after one.
update(data) ==
    /\ ~panicked
    /\ raw' = data
    /\ written' = data
    /\ UNCHANGED <<revision, registry_vars, max_duty, actuators, tick, panicked,
                   basic_in, basic_out,
                   exposed, refresh_vars, pwm_vars>>

(***************************************************************************)
(* Bounds of the actuator specification.                                   *)
(***************************************************************************)
\* The largest get_max_duty() of a channel (the timer's period, set once at
\* Controller::new).
MaxDuty == 3
\* The inputs made through make_input.
MaxInputs == 1

\* A u32 is kept as its two 16-bit halves <<high, low>>: TLC's integers stop
\* short of core::u32::MAX.
U16_MAX == 65535
U32(n) == <<n \div (U16_MAX + 1), n % (U16_MAX + 1)>>
\* core::u32::MAX
U32_MAX == <<U16_MAX, U16_MAX>>

(***************************************************************************)
(* SPIControllerBuilder::make_input: get_input(..).expect(..), a panic on  *)
(* TooManyInputs.                                                          *)
(***************************************************************************)
make_input(input_type) ==
    LET size_used == SizeUsed(layout)
    IN  /\ revision = "solenoids"
        /\ ~panicked
        /\ Len(views) < MaxInputs
        /\ call' = Call(input_type, size_used, Len(layout))
        /\ IF size_used >= SIZE_LIMIT \/ Len(layout) >= VEC_CAPACITY
           THEN /\ result' = Err
                /\ panicked' = TRUE
                /\ UNCHANGED <<layout, views>>
           ELSE /\ layout' = Append(layout, <<size_used, InputWidth(input_type)>>)
                /\ result' = Ok(InputData(size_used, input_type))
                /\ views' = Append(views, InputData(size_used, input_type))
                /\ panicked' = panicked
        /\ UNCHANGED <<revision, raw, written, layout_arr, input_count,
                       max_duty, actuators, tick, basic_in, basic_out,
                   exposed, refresh_vars, pwm_vars>>

(***************************************************************************)
(* A PWM pin (embedded_hal::PwmPin, here ChannelPin): its enable bit and   *)
(* its duty register.                                                      *)
(***************************************************************************)
Pin(enabled, duty) == [enabled |-> enabled, duty |-> duty]

disable(pin) == [pin EXCEPT !.enabled = FALSE]
enable(pin) == [pin EXCEPT !.enabled = TRUE]
set_duty(pin, duty) == [pin EXCEPT !.duty = duty]
get_max_duty == max_duty

\* The views no actuator owns yet (an InputData is moved into its actuator).
FreeViews ==
    {v \in 1..Len(views) : \A a \in 1..Len(actuators) : actuators[a].view # v}

Actuator(kind, v, pin) ==
    [kind |-> kind, view |-> v, input_data |-> views[v], output_pin |-> pin]

\* `exposed` keeps the states the pin of the last constructor or update_state
\* went through, one after each PwmPin call, in call order, with the actuator
\* and the call they belong to.
Exposed(a, called, pins) == [actuator |-> a, call |-> called, pins |-> pins]

\* What the last update_state met: the actuator, the lines of its view as
\* they read then, its pin before the call, and whether the call returned.
Tick(a, in1, in2, before, returned) ==
    [actuator |-> a, in1 |-> in1, in2 |-> in2, before |-> before,
     returned |-> returned]
NoTick == [actuator |-> 0]

\* BasicActuator::new: output_pin.disable().
BasicActuator_new(v, pin) ==
    /\ revision = "solenoids"
    /\ ~panicked
    /\ v \in FreeViews
    /\ actuators' = Append(actuators, Actuator("Basic", v, disable(pin)))
    /\ exposed' = Exposed(Len(actuators) + 1, "new", <<disable(pin)>>)
    /\ UNCHANGED <<revision, raw, written, registry_vars, max_duty, tick,
                   panicked, basic_in, basic_out, refresh_vars, pwm_vars>>

\* TriStateActuator::new (TwoStateActuator::new in the root revision).
TriStateActuator_new(v, pin) ==
    /\ revision = "solenoids"
    /\ ~panicked
    /\ v \in FreeViews
    /\ actuators' = Append(actuators, Actuator("TriState", v, disable(pin)))
    /\ exposed' = Exposed(Len(actuators) + 1, "new", <<disable(pin)>>)
    /\ UNCHANGED <<revision, raw, written, registry_vars, max_duty, tick,
                   panicked, basic_in, basic_out, refresh_vars, pwm_vars>>

\* update_state of a BasicActuator that enables the pin before it sets the
\* duty.
BasicActuator_update_state_enable_first(a) ==
    LET act == actuators[a]
        pin == act.output_pin
    IN  /\ revision = "solenoids"
        /\ ~panicked
        /\ act.kind = "Basic"
        /\ \E r1 \in input1_is_high(act.input_data) :
             IF r1.tag # "Some"
             THEN /\ panicked' = TRUE
                  /\ tick' = Tick(a, r1, None, pin, FALSE)
                  /\ actuators' = actuators
                  /\ exposed' = Exposed(a, "update_state", <<>>)
             ELSE /\ panicked' = panicked
                  /\ tick' = Tick(a, r1, None, pin, TRUE)
                  /\ actuators' = [actuators EXCEPT ![a].output_pin =
                        IF r1.val
                        THEN set_duty(enable(pin), get_max_duty)
                        ELSE disable(pin)]
                  /\ exposed' = Exposed(a, "update_state",
                        IF r1.val
                        THEN <<enable(pin), set_duty(enable(pin), get_max_duty)>>
                        ELSE <<disable(pin)>>)
        /\ UNCHANGED <<revision, raw, written, registry_vars, max_duty,
                       basic_in, basic_out, refresh_vars, pwm_vars>>

\* <BasicActuator as Actuator>::update_state.
BasicActuator_update_state(a) ==
    LET act == actuators[a]
        pin == act.output_pin
    IN  /\ revision = "solenoids"
        /\ ~panicked
        /\ act.kind = "Basic"
        /\ \E r1 \in input1_is_high(act.input_data) :
             IF r1.tag # "Some"
             THEN \* unwrap() of None, or the shift overflowed
                  /\ panicked' = TRUE
                  /\ tick' = Tick(a, r1, None, pin, FALSE)
                  /\ actuators' = actuators
                  /\ exposed' = Exposed(a, "update_state", <<>>)
             ELSE /\ panicked' = panicked
                  /\ tick' = Tick(a, r1, None, pin, TRUE)
                  /\ actuators' = [actuators EXCEPT ![a].output_pin =
                        IF r1.val
                        THEN enable(set_duty(pin, get_max_duty))
                        ELSE disable(pin)]
                  /\ exposed' = Exposed(a, "update_state",
                        IF r1.val
                        THEN <<set_duty(pin, get_max_duty),
                               enable(set_duty(pin, get_max_duty))>>
                        ELSE <<disable(pin)>>)
        /\ UNCHANGED <<revision, raw, written, registry_vars, max_duty,
                       basic_in, basic_out, refresh_vars, pwm_vars>>

\* update_state of a TriStateActuator that looks at input 1 first.
TriStateActuator_update_state_input1_first(a) ==
    LET act == actuators[a]
        pin == act.output_pin
    IN  /\ revision = "solenoids"
        /\ ~panicked
        /\ act.kind = "TriState"
        /\ \E r1 \in input1_is_high(act.input_data),
              r2 \in input2_is_high(act.input_data) :
             IF r2.tag # "Some" \/ r1.tag # "Some"
             THEN /\ panicked' = TRUE
                  /\ tick' = Tick(a, r1, r2, pin, FALSE)
                  /\ actuators' = actuators
                  /\ exposed' = Exposed(a, "update_state", <<>>)
             ELSE /\ panicked' = panicked
                  /\ tick' = Tick(a, r1, r2, pin, TRUE)
                  /\ actuators' = [actuators EXCEPT ![a].output_pin =
                        IF r1.val
                        THEN enable(set_duty(pin, get_max_duty))
                        ELSE IF r2.val
                             THEN enable(set_duty(pin, get_max_duty \div 2))
                             ELSE disable(pin)]
                  /\ exposed' = Exposed(a, "update_state",
                        IF r1.val
                        THEN <<set_duty(pin, get_max_duty),
                               enable(set_duty(pin, get_max_duty))>>
                        ELSE IF r2.val
                             THEN <<set_duty(pin, get_max_duty \div 2),
                                    enable(set_duty(pin, get_max_duty \div 2))>>
                             ELSE <<disable(pin)>>)
        /\ UNCHANGED <<revision, raw, written, registry_vars, max_duty,
                       basic_in, basic_out, refresh_vars, pwm_vars>>

\* <TriStateActuator as Actuator>::update_state (TwoStateActuator in the root
\* revision).  input2 is read first and input1 only when input2 is low; the
\* tick keeps how input1 read at that time in either case.
TriStateActuator_update_state(a) ==
    LET act == actuators[a]
        pin == act.output_pin
    IN  /\ revision = "solenoids"
        /\ ~panicked
        /\ act.kind = "TriState"
        /\ \E r1 \in input1_is_high(act.input_data),
              r2 \in input2_is_high(act.input_data) :
             IF r2.tag # "Some" \/ (~r2.val /\ r1.tag # "Some")
             THEN \* unwrap() of None, or the shift overflowed
                  /\ panicked' = TRUE
                  /\ tick' = Tick(a, r1, r2, pin, FALSE)
                  /\ actuators' = actuators
                  /\ exposed' = Exposed(a, "update_state", <<>>)
             ELSE /\ panicked' = panicked
                  /\ tick' = Tick(a, r1, r2, pin, TRUE)
                  /\ actuators' = [actuators EXCEPT ![a].output_pin =
                        IF r2.val
                        THEN enable(set_duty(pin, get_max_duty \div 2))
                        ELSE IF r1.val
                             THEN enable(set_duty(pin, get_max_duty))
                             ELSE disable(pin)]
                  /\ exposed' = Exposed(a, "update_state",
                        IF r2.val
                        THEN <<set_duty(pin, get_max_duty \div 2),
                               enable(set_duty(pin, get_max_duty \div 2))>>
                        ELSE IF r1.val
                             THEN <<set_duty(pin, get_max_duty),
                                    enable(set_duty(pin, get_max_duty))>>
                             ELSE <<disable(pin)>>)
        /\ UNCHANGED <<revision, raw, written, registry_vars, max_duty,
                       basic_in, basic_out, refresh_vars, pwm_vars>>

(***************************************************************************)
(* The actuators revision: pwm::State and Basic::update_state.             *)
(***************************************************************************)
State(enabled, duty_cycle) == [enabled |-> enabled, duty_cycle |-> duty_cycle]
NoState == [enabled |-> FALSE, duty_cycle |-> <<>>]

\* The duty cycles a previous State is drawn from.
DutyCycles == {U32(d) : d \in 0..MaxDuty} \cup {U32_MAX}

\* Basic::update_state(data, curr_state), data.is_input1_high() being `high`.
Basic_update_state(high, curr_state) ==
    IF high
    THEN State(TRUE, U32_MAX)
    ELSE State(FALSE, curr_state.duty_cycle)

\* One call of Basic::update_state.
Basic_call(high, curr_state) ==
    /\ revision = "actuators"
    /\ ~panicked
    /\ basic_in' = [high |-> high, curr_state |-> curr_state]
    /\ basic_out' = Basic_update_state(high, curr_state)
    /\ UNCHANGED <<revision, raw, written, registry_vars, max_duty, actuators,
                   tick, panicked, exposed, refresh_vars, pwm_vars>>

(***************************************************************************)
(* The input refresh: SPIControllerBuilder::load_data (solenoids revision) *)
(* and Solenoids::read_inputs (actuators revision, board).  `pc` names the *)
(* call the refresh makes next; "idle" is between refreshes.  The pin's    *)
(* set_low and set_high always take effect (a GPIO output).                *)
(***************************************************************************)
\* The bytes the shift registers send.
ByteSamples == {0, 1, 2}
\* let mut buf = [0u8; 2]
BUF_LEN == 2
U8_RANGE == 256

\* u16::from_be_bytes(buf): the first byte is the high one.
from_be_bytes(b) == b[1] * U8_RANGE + b[2]
\* u16::from_le_bytes(buf): the first byte is the low one.
from_le_bytes(b) == b[1] + b[2] * U8_RANGE

\* buf after a transfer that stored the first n bytes of `bytes` in it.
Received(b, n, bytes) == [i \in 1..BUF_LEN |-> IF i <= n THEN bytes[i] ELSE b[i]]

\* self.load_pin.set_low().unwrap_or_default()
load_data_set_low ==
    /\ revision = "solenoids"
    /\ ~panicked
    /\ pc = "idle"
    /\ load_pin' = "low"
    /\ prev_raw' = raw
    /\ pc' = "transfer"
    /\ UNCHANGED <<buf, transfer, refreshed, good>>
    /\ UNCHANGED <<revision, raw, written, registry_vars, max_duty, actuators,
                   tick, panicked, basic_in, basic_out, exposed, pwm_vars>>

\* let mut buf = [0u8; 2]; self.bus.transfer(&mut buf): the Result is dropped.
\* A transfer that fails has stored fewer than BUF_LEN bytes.
load_data_transfer ==
    /\ revision = "solenoids"
    /\ ~panicked
    /\ pc = "transfer"
    /\ \E n \in 0..BUF_LEN, b1 \in ByteSamples, b2 \in ByteSamples :
          /\ buf' = Received(<<0, 0>>, n, <<b1, b2>>)
          /\ transfer' = IF n = BUF_LEN THEN "ok" ELSE "err"
    /\ pc' = "set_high"
    /\ UNCHANGED <<load_pin, refreshed, good, prev_raw>>
    /\ UNCHANGED <<revision, raw, written, registry_vars, max_duty, actuators,
                   tick, panicked, basic_in, basic_out, exposed, pwm_vars>>

\* self.load_pin.set_high().unwrap_or_default()
load_data_set_high ==
    /\ revision = "solenoids"
    /\ ~panicked
    /\ pc = "set_high"
    /\ load_pin' = "high"
    /\ pc' = "update"
    /\ UNCHANGED <<buf, transfer, refreshed, good, prev_raw>>
    /\ UNCHANGED <<revision, raw, written, registry_vars, max_duty, actuators,
                   tick, panicked, basic_in, basic_out, exposed, pwm_vars>>

\* self.input_array.update(u16::from_le_bytes(buf)), whatever the transfer
\* returned.
load_data_update ==
    /\ revision = "solenoids"
    /\ ~panicked
    /\ pc = "update"
    /\ raw' = from_le_bytes(buf)
    /\ written' = from_le_bytes(buf)
    /\ good' = IF transfer = "ok" THEN from_le_bytes(buf) ELSE good
    /\ refreshed' = TRUE
    /\ pc' = "idle"
    /\ UNCHANGED <<load_pin, buf, transfer, prev_raw>>
    /\ UNCHANGED <<revision, registry_vars, max_duty, actuators,
                   tick, panicked, basic_in, basic_out, exposed, pwm_vars>>

\* Solenoids::update_states begins with read_inputs:
\* self.load_pin.set_low().unwrap()
read_inputs_set_low ==
    /\ revision = "actuators"
    /\ ~panicked
    /\ pc = "idle"
    /\ load_pin' = "low"
    /\ prev_raw' = raw
    /\ pc' = "transfer"
    /\ UNCHANGED <<buf, transfer, refreshed, good>>
    /\ UNCHANGED <<revision, raw, written, registry_vars, max_duty, actuators,
                   tick, panicked, basic_in, basic_out, exposed, pwm_vars>>

\* let mut buf = [0u8; 2]; self.bus.transfer(&mut buf).unwrap(): a failed
\* transfer panics here, and the program halts in the middle of the refresh.
read_inputs_transfer ==
    /\ revision = "actuators"
    /\ ~panicked
    /\ pc = "transfer"
    /\ \E n \in 0..BUF_LEN, b1 \in ByteSamples, b2 \in ByteSamples :
          /\ buf' = Received(<<0, 0>>, n, <<b1, b2>>)
          /\ transfer' = IF n = BUF_LEN THEN "ok" ELSE "err"
          /\ panicked' = (n # BUF_LEN)
          /\ pc' = IF n = BUF_LEN THEN "set_high" ELSE pc
    /\ UNCHANGED <<load_pin, refreshed, good, prev_raw>>
    /\ UNCHANGED <<revision, raw, written, registry_vars, max_duty, actuators,
                   tick, basic_in, basic_out, exposed, pwm_vars>>

\* self.load_pin.set_high().unwrap()
read_inputs_set_high ==
    /\ revision = "actuators"
    /\ ~panicked
    /\ pc = "set_high"
    /\ load_pin' = "high"
    /\ pc' = "update"
    /\ UNCHANGED <<buf, transfer, refreshed, good, prev_raw>>
    /\ UNCHANGED <<revision, raw, written, registry_vars, max_duty, actuators,
                   tick, panicked, basic_in, basic_out, exposed, pwm_vars>>

\* Solenoids::new: pin1 is made for Configuration::Tc3 and pin2 for
\* Configuration::Tcc0(Channel::_0).  A channel is <<timer, sub-channel>>.
pin1_config == <<"Tc3", 0>>
pin2_config == <<"Tcc0", 0>>
\* The views make_actuator gives them: single lines, in registration order.
pin1_input == InputData(0, "Single")
pin2_input == InputData(1, "Single")
\* The actuators the control loop has registered, in registration order.
Registered ==
    <<[pwm_config |-> pin1_config, input_config |-> pin1_input],
      [pwm_config |-> pin2_config, input_config |-> pin2_input]>>

\* fn update_pin1(&mut self, data: InputData<SingleInput>) {}
update_pin1(data) == channels' = channels

\* The end of read_inputs, self.input_array.update(u16::from_le_bytes(buf)),
\* and the rest of update_states: self.update_pin1(..) with the state read
\* for pin1.  Nothing is done for pin2.
read_inputs_update ==
    /\ revision = "actuators"
    /\ ~panicked
    /\ pc = "update"
    /\ raw' = from_le_bytes(buf)
    /\ written' = from_le_bytes(buf)
    /\ good' = from_le_bytes(buf)
    /\ update_pin1(pin1_input)
    /\ refreshed' = TRUE
    /\ pc' = "idle"
    /\ UNCHANGED <<load_pin, buf, transfer, prev_raw, handles>>
    /\ UNCHANGED <<revision, registry_vars, max_duty, actuators,
                   tick, panicked, basic_in, basic_out, exposed>>

(***************************************************************************)
(* The PWM controller and its channel handles.  Of the timers, Tcc0 (four  *)
(* sub-channels) and Tc3 (one) are modelled; tcc1_channel and tcc2_channel *)
(* are copies of tcc0_channel.  The timers themselves belong to the HAL:   *)
(* an operation on a sub-channel changes that sub-channel's bit or         *)
(* register.                                                               *)
(***************************************************************************)
\* enum Channel { _0, _1, _2, _3 }
Channel == 0..3
Channels == {<<"Tcc0", ch>> : ch \in Channel} \cup {<<"Tc3", 0>>}

\* Pwm::enable(channel), Pwm::disable(channel), Pwm::set_duty(channel, duty)
\* of the HAL's timer `controller`.
Pwm_enable(chs, controller, channel) ==
    [chs EXCEPT ![<<controller, channel>>] = enable(@)]
Pwm_disable(chs, controller, channel) ==
    [chs EXCEPT ![<<controller, channel>>] = disable(@)]
Pwm_set_duty(chs, controller, channel, duty) ==
    [chs EXCEPT ![<<controller, channel>>] = set_duty(@, duty)]

\* No handle borrows the controller: every issuing call takes &mut self and
\* its handles keep that borrow while they live.
Unborrowed == \A c \in Channels : handles[c] = 0
Live(h) == h \in Channels /\ handles[h] > 0

\* An issuing call that does not borrow the controller.
tcc0_channel_unborrowed(channel) ==
    /\ revision = "actuators"
    /\ handles' = [handles EXCEPT ![<<"Tcc0", channel>>] = @ + 1]
    /\ UNCHANGED <<revision, raw, written, registry_vars, max_duty, actuators,
                   tick, panicked, basic_in, basic_out, exposed, refresh_vars,
                   channels>>

\* Controller::tcc0_channel(&mut self, channel) -> ChannelPin<Pwm0>
tcc0_channel(channel) ==
    /\ revision = "actuators"
    /\ Unborrowed
    /\ handles' = [handles EXCEPT ![<<"Tcc0", channel>>] = @ + 1]
    /\ UNCHANGED <<revision, raw, written, registry_vars, max_duty, actuators,
                   tick, panicked, basic_in, basic_out, exposed, refresh_vars,
                   channels>>

\* Controller::tc3_channel(&mut self) -> &mut Pwm3
tc3_channel ==
    /\ revision = "actuators"
    /\ Unborrowed
    /\ handles' = [handles EXCEPT ![<<"Tc3", 0>>] = @ + 1]
    /\ UNCHANGED <<revision, raw, written, registry_vars, max_duty, actuators,
                   tick, panicked, basic_in, basic_out, exposed, refresh_vars,
                   channels>>

\* Controller::make_channels(&mut self) -> AllChannels of the board: one
\* ChannelPin for each sub-channel of each timer, each named once.
make_channels ==
    /\ revision = "board"
    /\ Unborrowed
    /\ handles' = [c \in Channels |-> handles[c] + 1]
    /\ UNCHANGED <<revision, raw, written, registry_vars, max_duty, actuators,
                   tick, panicked, basic_in, basic_out, exposed, refresh_vars,
                   channels>>

\* A handle goes out of scope.
drop(h) ==
    /\ Live(h)
    /\ handles' = [handles EXCEPT ![h] = @ - 1]
    /\ UNCHANGED <<revision, raw, written, registry_vars, max_duty, actuators,
                   tick, panicked, basic_in, basic_out, exposed, refresh_vars,
                   channels>>

\* A ChannelPin::enable that always names Channel::_0.
ChannelPin_enable_channel0(h) ==
    /\ Live(h)
    /\ channels' = Pwm_enable(channels, h[1], 0)
    /\ UNCHANGED <<revision, raw, written, registry_vars, max_duty, actuators,
                   tick, panicked, basic_in, basic_out, exposed, refresh_vars,
                   handles>>

\* <ChannelPin as PwmPin>::enable: self.controller.enable(self.channel.into())
ChannelPin_enable(h) ==
    /\ Live(h)
    /\ channels' = Pwm_enable(channels, h[1], h[2])
    /\ UNCHANGED <<revision, raw, written, registry_vars, max_duty, actuators,
                   tick, panicked, basic_in, basic_out, exposed, refresh_vars,
                   handles>>

\* <ChannelPin as PwmPin>::disable
ChannelPin_disable(h) ==
    /\ Live(h)
    /\ channels' = Pwm_disable(channels, h[1], h[2])
    /\ UNCHANGED <<revision, raw, written, registry_vars, max_duty, actuators,
                   tick, panicked, basic_in, basic_out, exposed, refresh_vars,
                   handles>>

\* <ChannelPin as PwmPin>::set_duty
ChannelPin_set_duty(h, duty) ==
    /\ Live(h)
    /\ channels' = Pwm_set_duty(channels, h[1], h[2], duty)
    /\ UNCHANGED <<revision, raw, written, registry_vars, max_duty, actuators,
                   tick, panicked, basic_in, basic_out, exposed, refresh_vars,
                   handles>>

(***************************************************************************)
(* Specifications.                                                         *)
(***************************************************************************)
\* InputArray::new(): an empty registry and a snapshot of 0.
InitRegistry ==
    /\ raw = 0
    /\ written = 0
    /\ layout = <<>>
    /\ layout_arr = [i \in 0..(ARRAY_LEN - 1) |-> <<0, 0>>]
    /\ input_count = 0
    /\ views = <<>>
    /\ call = Call("Single", 0, 0)
    /\ result = NoResult

InitActuators ==
    /\ actuators = <<>>
    /\ tick = NoTick
    /\ panicked = FALSE
    /\ exposed = Exposed(0, "none", <<>>)
    /\ basic_in = [high |-> FALSE, curr_state |-> NoState]
    /\ basic_out = NoState

\* No refresh has begun; the strobe is as the bring-up left it.
InitRefresh ==
    /\ pc = "idle"
    /\ buf = <<0, 0>>
    /\ transfer = "none"
    /\ refreshed = FALSE
    /\ good = 0
    /\ prev_raw = 0

\* No handle has been issued; the timers are as Controller::new left them.
InitPwm ==
    /\ handles = [c \in Channels |-> 0]
    /\ \E e \in BOOLEAN : channels = [c \in Channels |-> Pin(e, 0)]

\* The refresh and the PWM controller at rest, where they play no part.
AtRest ==
    /\ InitRefresh
    /\ load_pin = "low"
    /\ handles = [c \in Channels |-> 0]
    /\ channels = [c \in Channels |-> Pin(FALSE, 0)]

\* The registry and its snapshot, in the root and the solenoids revisions.
Init ==
    /\ revision \in {"solenoids", "root"}
    /\ InitRegistry
    /\ InitActuators
    /\ max_duty = MaxDuty
    /\ AtRest

Next ==
    \/ \E input \in InputType : get_input(input)
    \/ \E input \in InputType : root_get_input(input)
    \/ \E data \in RawSamples : update(data)

Spec == Init /\ [][Next]_vars

\* The actuators over a registry of at most MaxInputs inputs.
InitActuator ==
    /\ revision \in {"solenoids", "actuators"}
    /\ InitRegistry
    /\ InitActuators
    /\ max_duty \in 1..MaxDuty
    /\ AtRest

NextActuator ==
    \/ \E input \in InputType : make_input(input)
    \/ \E data \in LineSamples : update(data)
    \/ \E v \in 1..MaxInputs, e \in BOOLEAN, d \in 0..MaxDuty :
          d <= max_duty /\ BasicActuator_new(v, Pin(e, d))
    \/ \E v \in 1..MaxInputs, e \in BOOLEAN, d \in 0..MaxDuty :
          d <= max_duty /\ TriStateActuator_new(v, Pin(e, d))
    \/ \E a \in 1..Len(actuators) : BasicActuator_update_state(a)
    \/ \E a \in 1..Len(actuators) : TriStateActuator_update_state(a)
    \/ \E high \in BOOLEAN, e \in BOOLEAN, d \in DutyCycles :
          Basic_call(high, State(e, d))

SpecActuator == InitActuator /\ [][NextActuator]_vars

\* The input refresh of the builder (solenoids) and of the board's control
\* loop (actuators), one call after another.
InitRefreshLoop ==
    /\ revision \in {"solenoids", "actuators"}
    /\ InitRegistry
    /\ InitActuators
    /\ max_duty = MaxDuty
    /\ InitRefresh
    /\ load_pin \in {"low", "high"}
    /\ InitPwm

NextRefresh ==
    \/ load_data_set_low
    \/ load_data_transfer
    \/ load_data_set_high
    \/ load_data_update
    \/ read_inputs_set_low
    \/ read_inputs_transfer
    \/ read_inputs_set_high
    \/ read_inputs_update

SpecRefresh == InitRefreshLoop /\ [][NextRefresh]_vars

\* The duties written through a handle.
DutySamples == {0, get_max_duty}

\* A handle's operations, and every operation of every live handle.
ChannelPin_call(h) ==
    \/ ChannelPin_enable(h)
    \/ ChannelPin_disable(h)
    \/ \E duty \in DutySamples : ChannelPin_set_duty(h, duty)

\* The PWM controller of the library (actuators) and of the board.
InitPwmController ==
    /\ revision \in {"actuators", "board"}
    /\ InitRegistry
    /\ InitActuators
    /\ max_duty = MaxDuty
    /\ InitRefresh
    /\ load_pin = "low"
    /\ InitPwm

NextPwm ==
    \/ \E channel \in Channel : tcc0_channel(channel)
    \/ tc3_channel
    \/ make_channels
    \/ \E h \in Channels : drop(h)
    \/ \E h \in Channels : ChannelPin_enable(h)
    \/ \E h \in Channels : ChannelPin_disable(h)
    \/ \E h \in Channels, duty \in DutySamples : ChannelPin_set_duty(h, duty)

SpecPwm == InitPwmController /\ [][NextPwm]_vars

(***************************************************************************)
(* Properties.                                                             *)
(***************************************************************************)
\* The extents of the registry, in registration order.
Extents ==
    IF revision = "root" THEN ArrPrefix(layout_arr, input_count) ELSE layout

\* Bit k of a 16-bit word; a u16 has no bit 16 or above.
BitOfWord(word, k) == k < U16_BITS /\ (word \div Pow2(k)) % 2 = 1

\* The widths of the views returned before the i-th.
RECURSIVE WidthsBefore(_, _)
WidthsBefore(vs, i) ==
    IF i <= 1 THEN 0
    ELSE InputWidth(vs[i - 1]._type) + WidthsBefore(vs, i - 1)

\* C1: the i-th view returned by a successful get_input starts at the sum of
\* the widths of the views returned before it (the first at 0), so the start
\* offsets increase strictly in registration order.
C1_OffsetsArePrefixSums ==
    /\ \A i \in 1..Len(views) :
          /\ views[i].start_offset = WidthsBefore(views, i)
          /\ \A j \in 1..(i - 1) : views[j].start_offset < views[i].start_offset
    /\ result.tag = "Ok" =>
          /\ Len(views) > 0
          /\ result.data = views[Len(views)]

\* A Single, a Double and a Triple were registered in this order, at 0, 1, 3.
C1_Witness ==
    /\ Len(views) = 3
    /\ result.tag = "Ok"
    /\ views[1]._type = "Single"
    /\ views[2]._type = "Double"
    /\ views[3] = InputData(3, "Triple")

\* C2: a get_input whose width, added to the width already committed, would
\* exceed 16 bits returns TooManyInputs.
C2_OverBudgetIsRefused ==
    (result.tag # "NoCall" /\ call.size_used + InputWidth(call.input) > U16_BITS)
        => result = Err

\* C3: the registry holds 16 extents: a get_input that is at most the 16th
\* and keeps the committed width at or below 16 succeeds.
C3_SixteenExtentsFit ==
    (/\ result.tag # "NoCall"
     /\ call.count < ARRAY_LEN
     /\ call.size_used + InputWidth(call.input) <= U16_BITS)
        => result.tag = "Ok"

\* C4: a get_input that returns TooManyInputs leaves the registry as it was:
\* the same extents, the same count, and with them the same committed width
\* and the same views, so a later call meets the registry the failed call met.
C4_FailureLeavesRegistry ==
    [][result'.tag = "Err" =>
          /\ layout' = layout
          /\ layout_arr' = layout_arr
          /\ input_count' = input_count
          /\ views' = views]_vars

\* A get_input was refused with the Vec's 16 bits committed or exceeded.
C4_Witness ==
    /\ revision = "solenoids"
    /\ result = Err
    /\ Len(layout) > 0
    /\ SizeUsed(layout) >= SIZE_LIMIT

\* C5: the committed width of the registered extents is at most 16, there are
\* at most 16 of them, and every one ends at or below bit 16, so that every
\* line of a view is one of the bits 0..15.
C5_WithinSixteenBits ==
    /\ SizeUsed(Extents) <= U16_BITS
    /\ Len(Extents) <= ARRAY_LEN
    /\ \A i \in 1..Len(Extents) : Extents[i][1] + Extents[i][2] <= U16_BITS
    /\ \A v \in 1..Len(views) :
          views[v].start_offset + InputWidth(views[v]._type) <= U16_BITS

\* C6: line i (1, 2 or 3) of a registered view that starts at bit o reads
\* true exactly when bit o + i - 1 of the snapshot is set.
C6_LineReadsItsBit ==
    \A v \in 1..Len(views) :
       \A line \in 1..InputWidth(views[v]._type) :
          input_is_high(views[v], line) =
             {Some(BitOfWord(raw, views[v].start_offset + line - 1))}

\* C7: a view gives a value for each line of its width class and None for the
\* lines above it: a Single for line 1, a Double for lines 1 and 2, a Triple
\* for all three.
C7_LinesMatchWidth ==
    \A v \in 1..Len(views) :
       \A line \in 1..3 :
          \A r \in input_is_high(views[v], line) :
             IF line <= InputWidth(views[v]._type)
             THEN r.tag = "Some"
             ELSE r = None

\* C8: every line of every registered view reads its bit of the value given
\* to the latest update (of 0 before any update), whenever the view was made.
C8_ReadsFollowLatestUpdate ==
    /\ raw = written
    /\ \A v \in 1..Len(views) :
          \A line \in 1..InputWidth(views[v]._type) :
             \A r \in input_is_high(views[v], line) :
                r = Some(BitOfWord(written, views[v].start_offset + line - 1))

\* The actuator of the latest update_state, when that call returned.
Ticked(kind) ==
    /\ tick # NoTick
    /\ tick.returned
    /\ actuators[tick.actuator].kind = kind

\* C9: Basic, with line 1 high, gives an enabled output at the max_duty of the
\* channel; with line 1 low, a disabled output with the duty it had before.
\* This for Basic::update_state and for BasicActuator::update_state.
C9_BasicLaw ==
    /\ basic_out # NoState =>
          IF basic_in.high
          THEN basic_out = State(TRUE, U32(max_duty))
          ELSE basic_out = State(FALSE, basic_in.curr_state.duty_cycle)
    /\ Ticked("Basic") =>
          IF tick.in1 = Some(TRUE)
          THEN actuators[tick.actuator].output_pin = Pin(TRUE, max_duty)
          ELSE actuators[tick.actuator].output_pin = Pin(FALSE, tick.before.duty)

\* C10: TriState, with line 2 high, gives an enabled output at max_duty / 2
\* whatever line 1 is; with line 2 low and line 1 high, an enabled output at
\* max_duty; with both low, a disabled output.
C10_TriStateLaw ==
    Ticked("TriState") =>
       LET pin == actuators[tick.actuator].output_pin
       IN  /\ tick.in2 = Some(TRUE) => pin = Pin(TRUE, max_duty \div 2)
           /\ (tick.in2 = Some(FALSE) /\ tick.in1 = Some(TRUE)) =>
                 pin = Pin(TRUE, max_duty)
           /\ (tick.in2 = Some(FALSE) /\ tick.in1 = Some(FALSE)) =>
                 ~pin.enabled

\* A TriState actuator that was enabled at max_duty met both lines high, and is
\* now enabled at half of it.
C10_Witness ==
    /\ Ticked("TriState")
    /\ tick.in1 = Some(TRUE)
    /\ tick.in2 = Some(TRUE)
    /\ max_duty = MaxDuty
    /\ tick.before = Pin(TRUE, max_duty)
    /\ actuators[tick.actuator].output_pin = Pin(TRUE, max_duty \div 2)

\* C11: a refresh drives the strobe low, transfers 2 bytes, drives the strobe
\* high and only then updates the snapshot, with the first byte received as
\* the low byte of the word and the second as the high byte; the buffer is
\* written only while the strobe is low, the snapshot only while it is high,
\* and after the first refresh the strobe is high whenever none is in hand.
C11_RefreshOrder ==
    /\ [](/\ pc \in {"transfer", "set_high"} => load_pin = "low" /\ raw = prev_raw
          /\ pc = "update" => load_pin = "high" /\ raw = prev_raw
          /\ (pc = "idle" /\ refreshed) =>
                /\ load_pin = "high"
                /\ raw % U8_RANGE = buf[1]
                /\ raw \div U8_RANGE = buf[2])
    /\ [][buf' # buf => load_pin = "low" /\ load_pin' = "low"]_vars
    /\ [][raw' # raw => load_pin = "high" /\ load_pin' = "high"]_vars

\* A refresh has completed with two different bytes received.
C11_Witness ==
    /\ pc = "idle"
    /\ refreshed
    /\ transfer = "ok"
    /\ buf = <<1, 2>>
    /\ raw = 513
    /\ load_pin = "high"

\* The line of a view in a snapshot, where the view lies within the word.
LineOf(word, d) == BitOfWord(word, d.start_offset)

\* C12: after every update_states, the channel of each registered actuator
\* (pin1, then pin2) is enabled exactly when the actuator's line is high in
\* the snapshot that tick read.
C12_EveryActuatorIsDriven ==
    (revision = "actuators" /\ refreshed /\ pc = "idle") =>
        \A i \in 1..Len(Registered) :
            channels[Registered[i].pwm_config].enabled =
                LineOf(raw, Registered[i].input_config)

\* The handles that a step of the PWM controller may have acted through.
Acted(h) == ChannelPin_call(h)

\* C13: the calls made through a handle leave the enabled flag and the duty
\* of every other sub-channel as they were; they reach the handle's own
\* sub-channel only.
C13_ChannelIsolation ==
    [][\A h \in Channels : Acted(h) =>
          \A c \in Channels \ {h} : channels'[c] = channels[c]]_vars

\* Two sub-channels of Tcc0 have both been written, the second one last and
\* through a live handle, and they differ.
C13_Witness ==
    /\ revision = "actuators"
    /\ Live(<<"Tcc0", 1>>)
    /\ channels[<<"Tcc0", 0>>] = Pin(TRUE, get_max_duty)
    /\ channels[<<"Tcc0", 1>>] = Pin(FALSE, get_max_duty)

\* C14: a refresh whose transfer failed does not halt, returns the strobe
\* high and leaves the snapshot at the value the last successful refresh
\* stored.
C14_FailureKeepsLastGood ==
    transfer = "err" =>
        /\ ~panicked
        /\ pc = "idle" => load_pin = "high" /\ raw = good

\* C15: every update_state of an actuator made from a view of get_input
\* returns; none panics.
C15_TransitionsAreTotal == tick # NoTick => tick.returned

\* C16: no (timer, sub-channel) pair has two live handles.
C16_OneHandlePerChannel == \A c \in Channels : handles[c] <= 1

\* A handle of Tcc0 is live after an earlier handle, of another sub-channel
\* of Tcc0, was used and dropped.
C16_Witness ==
    /\ revision = "actuators"
    /\ Live(<<"Tcc0", 0>>)
    /\ channels[<<"Tcc0", 1>>].duty = get_max_duty
    /\ channels[<<"Tcc0", 0>>].duty = 0

\* Line `line` of a view as it reads in the snapshot `word`.
LineAt(word, d, line) ==
    IF line <= InputWidth(d._type)
    THEN MaskedBitIsSet(word, (line - 1) + d.start_offset)
    ELSE {None}

\* The word with bit k flipped.
FlipBit(word, k) ==
    IF BitOfWord(word, k) THEN word - Pow2(k) ELSE word + Pow2(k)

\* The lines of the returned views that read differently once bit k of the
\* snapshot is flipped.
LinesChangedBy(word, k) ==
    {vl \in (1..Len(views)) \X (1..3) :
        LineAt(word, views[vl[1]], vl[2]) #
            LineAt(FlipBit(word, k), views[vl[1]], vl[2])}

\* C17: the registered extents do not overlap, a flip of one bit of the
\* snapshot changes at most one line of one view, and a registration leaves
\* the extents registered before it as they were.
C17_ExtentsNeverOverlap ==
    /\ [](/\ \A i, j \in 1..Len(Extents) :
                i < j => Extents[i][1] + Extents[i][2] <= Extents[j][1]
          /\ \A k \in 0..(U16_BITS - 1) :
                Cardinality(LinesChangedBy(raw, k)) <= 1)
    /\ [][\A i \in 1..Len(Extents) :
             i <= Len(Extents') /\ Extents'[i] = Extents[i]]_vars

\* The duty the latest tick asks for when it turns the output on.
DutyDue ==
    IF actuators[tick.actuator].kind = "TriState" /\ tick.in2.val
    THEN get_max_duty \div 2
    ELSE get_max_duty

\* Whether the latest tick turns the output on.
TurnsOn ==
    IF actuators[tick.actuator].kind = "TriState"
    THEN tick.in2.val \/ tick.in1.val
    ELSE tick.in1.val

\* The duties an enabled pin of an actuator of this kind may carry.
DutiesOf(kind) ==
    IF kind = "TriState"
    THEN {get_max_duty, get_max_duty \div 2}
    ELSE {get_max_duty}

\* C18: a pin-driving actuator's channel leaves its constructor disabled; an
\* enabled pin always carries max_duty (or max_duty / 2, TriState); in every
\* state the pin goes through in a tick, and after it, an enabled pin has the
\* duty the tick's snapshot asks for (max_duty, or max_duty / 2 for a
\* TriState with line 2 high); a tick that turns the output off calls disable
\* only, and the duty stays as it was.
C18_NoStaleDutyWhileEnabled ==
    /\ \A a \in 1..Len(actuators) :
          actuators[a].output_pin.enabled =>
              actuators[a].output_pin.duty \in DutiesOf(actuators[a].kind)
    /\ exposed.call = "new" =>
          /\ Len(exposed.pins) = 1
          /\ ~exposed.pins[1].enabled
          /\ ~actuators[exposed.actuator].output_pin.enabled
    /\ (exposed.call = "update_state" /\ tick.returned) =>
          LET pin == actuators[tick.actuator].output_pin
          IN  /\ exposed.actuator = tick.actuator
              /\ \A i \in 1..Len(exposed.pins) :
                    exposed.pins[i].enabled => exposed.pins[i].duty = DutyDue
              /\ exposed.pins # <<>>
              /\ pin = exposed.pins[Len(exposed.pins)]
              /\ pin.enabled = TurnsOn
              /\ pin.enabled => pin.duty = DutyDue
              /\ ~TurnsOn => /\ exposed.pins = <<disable(tick.before)>>
                             /\ pin.duty = tick.before.duty

\* A Basic and a TriState tick have turned the output on from a pin whose
\* duty was another one, and a tick has turned it off again.
C18_Witness ==
    /\ exposed.call = "update_state"
    /\ tick.returned
    /\ ~TurnsOn
    /\ tick.before.enabled
    /\ tick.before.duty = get_max_duty \div 2
    /\ get_max_duty \div 2 # get_max_duty
    /\ actuators[tick.actuator].kind = "TriState"
====
